---- MODULE Spec2Model ----
(***************************************************************************)
(* A model of the transcriber repository: the Streamlit application        *)
(* (romanian_gui.py) and the command line tool (romanian_transcriber.py).  *)
(*                                                                         *)
(* Text is a sequence of one-character strings.  Characters outside ASCII  *)
(* carry ASCII names ("a_breve" for U+0103, "cy_ch" for U+0447, "check"    *)
(* and "cross" for the two status marks, ...); a language code, a column   *)
(* name and a file extension are single characters of this alphabet, for   *)
(* none of them holds a character the code treats specially.               *)
(***************************************************************************)
EXTENDS Integers, Sequences, FiniteSets, TLC

(***************************************************************************)
(* Python's str methods, as the code uses them.                            *)
(***************************************************************************)
\* e under the name F gives it: the value of e is computed once
With(e, F(_)) == F(e)

Whitespace == {" ", "\t", "\n", "\r"}

UpperToLower == [V |-> "v", C |-> "c", A |-> "a", B |-> "b"]

LowerChar(c) == IF c \in DOMAIN UpperToLower THEN UpperToLower[c] ELSE c

\* str.lower()
Lower(s) == [i \in 1..Len(s) |-> LowerChar(s[i])]

RECURSIVE SplitAcc(_, _, _)
SplitAcc(s, cur, acc) ==
    IF s = <<>> THEN (IF cur = <<>> THEN acc ELSE Append(acc, cur))
    ELSE IF Head(s) \in Whitespace
         THEN SplitAcc(Tail(s), <<>>, IF cur = <<>> THEN acc ELSE Append(acc, cur))
         ELSE SplitAcc(Tail(s), Append(cur, Head(s)), acc)

\* str.split() without arguments: the runs of non-whitespace characters
Split(s) == SplitAcc(s, <<>>, <<>>)

RECURSIVE Join(_, _)
\* sep.join(words)
Join(sep, words) ==
    IF words = <<>> THEN <<>>
    ELSE IF Len(words) = 1 THEN words[1]
    ELSE words[1] \o sep \o Join(sep, Tail(words))

RECURSIVE LStrip(_)
LStrip(s) == IF s # <<>> /\ Head(s) \in Whitespace THEN LStrip(Tail(s)) ELSE s

RECURSIVE RStrip(_)
RStrip(s) ==
    IF s # <<>> /\ s[Len(s)] \in Whitespace THEN RStrip(SubSeq(s, 1, Len(s) - 1)) ELSE s

\* str.strip()
Strip(s) == RStrip(LStrip(s))

RECURSIVE Replace(_, _, _)
\* str.replace(old, new) for a non-empty old: left to right, without overlap
Replace(s, old, new) ==
    IF Len(s) < Len(old) THEN s
    ELSE IF SubSeq(s, 1, Len(old)) = old
         THEN new \o Replace(SubSeq(s, Len(old) + 1, Len(s)), old, new)
         ELSE <<Head(s)>> \o Replace(Tail(s), old, new)

\* sub in s
Contains(s, sub) ==
    \E i \in 0..(Len(s) - Len(sub)) : SubSeq(s, i + 1, i + Len(sub)) = sub

(***************************************************************************)
(* Normalizer and phonetic transcriber.                                    *)
(***************************************************************************)
\* a table whose value is a key of it
NORMALIZATION_MAP_cyclic ==
    << << <<"v", "i", "n", "e", "r", "e">>, <<"v", "i", "n", "e", "r", "i">> >>,
       << <<"v", "i", "n", "e", "r", "i">>, <<"v", "i", "n", "e", "r", "e">> >> >>

\* the dict as its list of (key, value) pairs
NORMALIZATION_MAP ==
    << << <<"v", "i", "n", "e", "r", "e">>, <<"v", "i", "n", "e", "r", "i">> >> >>

\* NORMALIZATION_MAP.get(w, w)
MapGet(w) ==
    IF \E i \in DOMAIN NORMALIZATION_MAP : NORMALIZATION_MAP[i][1] = w
    THEN NORMALIZATION_MAP[CHOOSE i \in DOMAIN NORMALIZATION_MAP :
                                NORMALIZATION_MAP[i][1] = w][2]
    ELSE w

normalize(phrase) ==
    With(Split(Lower(phrase)), LAMBDA words :
        Join(<<" ">>, [i \in DOMAIN words |-> MapGet(words[i])]))

IPA_REPLACEMENTS == <<
    << <<"c", "e">>, <<"t", "tie", "esh", "e">> >>,
    << <<"c", "i">>, <<"t", "tie", "esh", "i">> >>,
    << <<"g", "e">>, <<"d", "tie", "ezh", "e">> >>,
    << <<"g", "i">>, <<"d", "tie", "ezh", "i">> >>,
    << <<"c", "h">>, <<"k">> >>,
    << <<"g", "h">>, <<"g">> >>,
    << <<"a_breve">>, <<"schwa">> >>,
    << <<"a_circ">>, <<"i_bar">> >>,
    << <<"i_circ">>, <<"i_bar">> >>,
    << <<"s_comma">>, <<"esh">> >>,
    << <<"t_cedilla">>, <<"t", "tie", "s">> >>,
    << <<"t_comma">>, <<"t", "tie", "s">> >> >>

RU_REPLACEMENTS == <<
    << <<"c", "e">>, <<"cy_ch", "cy_e">> >>,
    << <<"c", "i">>, <<"cy_ch", "cy_i">> >>,
    << <<"g", "e">>, <<"cy_d", "cy_zh", "cy_e">> >>,
    << <<"g", "i">>, <<"cy_d", "cy_zh", "cy_i">> >>,
    << <<"c", "h">>, <<"cy_k">> >>,
    << <<"g", "h">>, <<"cy_g">> >>,
    << <<"a_breve">>, <<"cy_ee">> >>,
    << <<"a_circ">>, <<"cy_y">> >>,
    << <<"i_circ">>, <<"cy_y">> >>,
    << <<"s_comma">>, <<"cy_sh">> >>,
    << <<"t_cedilla">>, <<"cy_ts">> >>,
    << <<"t_comma">>, <<"cy_ts">> >>,
    << <<"a">>, <<"cy_a">> >>,
    << <<"e">>, <<"cy_e">> >>,
    << <<"i">>, <<"cy_i">> >>,
    << <<"o">>, <<"cy_o">> >>,
    << <<"u">>, <<"cy_u">> >>,
    << <<"b">>, <<"cy_b">> >>,
    << <<"c">>, <<"cy_k">> >>,
    << <<"d">>, <<"cy_d">> >>,
    << <<"f">>, <<"cy_f">> >>,
    << <<"g">>, <<"cy_g">> >>,
    << <<"h">>, <<"cy_h">> >>,
    << <<"j">>, <<"cy_zh">> >>,
    << <<"k">>, <<"cy_k">> >>,
    << <<"l">>, <<"cy_l">> >>,
    << <<"m">>, <<"cy_m">> >>,
    << <<"n">>, <<"cy_n">> >>,
    << <<"p">>, <<"cy_p">> >>,
    << <<"q">>, <<"cy_k">> >>,
    << <<"r">>, <<"cy_r">> >>,
    << <<"s">>, <<"cy_s">> >>,
    << <<"t">>, <<"cy_t">> >>,
    << <<"v">>, <<"cy_v">> >>,
    << <<"w">>, <<"cy_v">> >>,
    << <<"x">>, <<"cy_k", "cy_s">> >>,
    << <<"y">>, <<"cy_i">> >>,
    << <<"z">>, <<"cy_z">> >> >>

RECURSIVE ApplyRules(_, _)
\* for orig, repl in rules: result = result.replace(orig, repl)
\* (the rules in their order: the first half of them, then the second half)
ApplyRules(result, rules) ==
    IF rules = <<>> \/ result = <<>> THEN result
    ELSE IF Len(rules) = 1 THEN Replace(result, rules[1][1], rules[1][2])
    ELSE ApplyRules(ApplyRules(result, SubSeq(rules, 1, Len(rules) \div 2)),
                    SubSeq(rules, Len(rules) \div 2 + 1, Len(rules)))

\* the rules applied last to first
apply_replacements_reversed(phrase, rules) ==
    ApplyRules(Lower(phrase), [i \in DOMAIN rules |-> rules[Len(rules) + 1 - i]])

apply_replacements(phrase, rules) == ApplyRules(Lower(phrase), rules)

(***************************************************************************)
(* The csv module at the character level: csv.writer and csv.reader with   *)
(* the default dialect (delimiter ",", quotechar '"', doublequote, minimal *)
(* quoting, lineterminator "\r\n"), and the text layer of open().          *)
(* A file's text is a sequence of characters; a grid is a sequence of      *)
(* rows, a row a sequence of cells, a cell a text.                         *)
(***************************************************************************)
\* the value None, which no text equals: its one element is no character
None == <<"None">>

\* a field with the delimiter, the quote character or a line end in it is quoted
csv_writer_field(cell) ==
    IF \E i \in DOMAIN cell : cell[i] \in {",", "\"", "\r", "\n"}
    THEN <<"\"">> \o Replace(cell, <<"\"">>, <<"\"", "\"">>) \o <<"\"">>
    ELSE cell

csv_writer_row(cells) ==
    IF Len(cells) = 1 /\ cells[1] = <<>> THEN <<"\"", "\"", "\r", "\n">>
    ELSE Join(<<",">>, [i \in DOMAIN cells |-> csv_writer_field(cells[i])])
         \o <<"\r", "\n">>

RECURSIVE csv_writer(_)
\* the text csv.writer(f).writerows(grid) writes to f opened with newline=""
csv_writer(grid) ==
    IF grid = <<>> THEN <<>> ELSE csv_writer_row(grid[1]) \o csv_writer(Tail(grid))

\* open(path, "r") without newline="": "\r\n" and "\r" are read as "\n".  The "\n" of
\* a "\r\n" is dropped and every "\r" becomes "\n".
UniversalNewlines(text) ==
    With(SelectSeq([i \in 1..Len(text) |-> i],
                   LAMBDA i : ~(text[i] = "\n" /\ i > 1 /\ text[i - 1] = "\r")),
         LAMBDA kept :
             [j \in DOMAIN kept |-> IF text[kept[j]] = "\r" THEN "\n" ELSE text[kept[j]]])

\* the end of a line, which the reader is handed after each line's characters
EOL == "EOL"

ReaderInit ==
    [st |-> "START_RECORD", field |-> <<>>, fields |-> <<>>, rows |-> <<>>, bol |-> TRUE]

SaveField(r, st) == [r EXCEPT !.fields = Append(r.fields, r.field), !.field = <<>>, !.st = st]

AfterLine(c) == IF c = EOL THEN "START_RECORD" ELSE "EAT_CRNL"

\* the state START_FIELD of parse_process_char
StartField(r, c) ==
    IF c \in {"\n", "\r", EOL} THEN SaveField(r, AfterLine(c))
    ELSE IF c = "\"" THEN [r EXCEPT !.st = "IN_QUOTED_FIELD"]
    ELSE IF c = "," THEN SaveField(r, "START_FIELD")
    ELSE [r EXCEPT !.field = Append(r.field, c), !.st = "IN_FIELD"]

\* parse_process_char of _csv.c (no escapechar, not strict, no skipinitialspace)
ReaderChar(r, c) ==
        CASE r.st = "START_RECORD" ->
                IF c = EOL THEN r
                ELSE IF c \in {"\n", "\r"} THEN [r EXCEPT !.st = "EAT_CRNL"]
                ELSE StartField(r, c)
          [] r.st = "START_FIELD" -> StartField(r, c)
          [] r.st = "IN_FIELD" ->
                IF c \in {"\n", "\r", EOL} THEN SaveField(r, AfterLine(c))
                ELSE IF c = "," THEN SaveField(r, "START_FIELD")
                ELSE [r EXCEPT !.field = Append(r.field, c)]
          [] r.st = "IN_QUOTED_FIELD" ->
                IF c = EOL THEN r
                ELSE IF c = "\"" THEN [r EXCEPT !.st = "QUOTE_IN_QUOTED_FIELD"]
                ELSE [r EXCEPT !.field = Append(r.field, c)]
          [] r.st = "QUOTE_IN_QUOTED_FIELD" ->
                IF c = "\"" THEN [r EXCEPT !.field = Append(r.field, c),
                                            !.st = "IN_QUOTED_FIELD"]
                ELSE IF c = "," THEN SaveField(r, "START_FIELD")
                ELSE IF c \in {"\n", "\r", EOL} THEN SaveField(r, AfterLine(c))
                ELSE [r EXCEPT !.field = Append(r.field, c), !.st = "IN_FIELD"]
          [] r.st = "EAT_CRNL" ->
                IF c = EOL THEN [r EXCEPT !.st = "START_RECORD"] ELSE r

\* Reader_iternext: a record ends with the line that leaves the reader in START_RECORD
EndLine(r) ==
    With(ReaderChar(r, EOL), LAMBDA e :
        IF e.st = "START_RECORD"
        THEN [e EXCEPT !.rows = Append(e.rows, e.fields), !.fields = <<>>]
        ELSE e)

\* one character of the file: the lines of a text file end at "\n", and r.bol tells that
\* no character of the current line has been read
ReaderStep(r, c) ==
    IF c = "\n" THEN [EndLine(ReaderChar(r, c)) EXCEPT !.bol = TRUE]
    ELSE [ReaderChar(r, c) EXCEPT !.bol = FALSE]

RECURSIVE ReaderRun(_, _, _, _)
\* the characters text[lo..hi] in their order: the first half of them, then the second
\* (r, the state the characters before lo left, is computed before text[lo] is read)
ReaderRun(r, text, lo, hi) ==
    IF lo > hi \/ r.st = "" THEN r
    ELSE IF lo = hi THEN ReaderStep(r, text[lo])
    ELSE ReaderRun(ReaderRun(r, text, lo, (lo + hi) \div 2), text, (lo + hi) \div 2 + 1, hi)

\* the end of the file: a last line without "\n" ends here
ReaderEnd(r) ==
    With(IF r.bol THEN r ELSE EndLine(r), LAMBDA e :
        IF e.st = "START_RECORD" THEN e.rows
        ELSE \* the file ends inside a record: the field read so far is kept
             Append(e.rows, Append(e.fields, e.field)))

\* list(csv.reader(f)) for f = open(path, "r"): the grid read from the file's text
csv_reader(text) ==
    With(UniversalNewlines(text),
         LAMBDA t : ReaderEnd(ReaderRun(ReaderInit, t, 1, Len(t))))

(***************************************************************************)
(* csv.DictReader and csv.DictWriter, over grids.  A row dict is a         *)
(* function from column names to cells; a store (a Python dict, which      *)
(* keeps insertion order) is a sequence of [key, row] entries with         *)
(* distinct keys.                                                          *)
(***************************************************************************)
\* the column names
F == [original |-> <<"original">>, normalized |-> <<"normalized">>, ipa |-> <<"ipa">>,
      ru_phonetic |-> <<"ru_phonetic">>, translation |-> <<"translation">>,
      lang |-> <<"lang">>, known |-> <<"known">>, category |-> <<"category">>,
      date_added |-> <<"date_added">>, date_known |-> <<"date_known">>]

\* fieldnames of save_csv_file
FIELDNAMES == <<F.original, F.normalized, F.ipa, F.ru_phonetic, F.translation,
                F.lang, F.known, F.category, F.date_added, F.date_known>>

Range(seq) == {seq[i] : i \in DOMAIN seq}

\* one row of csv.DictReader: dict(zip(fieldnames, row)), restkey None, restval None
DictRow(fieldnames, row) ==
    [k \in Range(fieldnames) \cup (IF Len(fieldnames) < Len(row) THEN {None} ELSE {}) |->
        IF k \in Range(fieldnames)
        THEN With(CHOOSE j \in DOMAIN fieldnames :
                      /\ fieldnames[j] = k
                      /\ \A m \in (j + 1)..Len(fieldnames) : fieldnames[m] # k,
                  LAMBDA i : IF i <= Len(row) THEN row[i] ELSE None)
        ELSE \* the cells past the header's width, a list under the key None
             <<"list">> \o Join(<<",">>, SubSeq(row, Len(fieldnames) + 1, Len(row)))]

\* list(csv.DictReader(f)): the first row names the columns, blank rows are skipped
DictReader(grid) ==
    IF grid = <<>> THEN <<>>
    ELSE With(SelectSeq(Tail(grid), LAMBDA row : row # <<>>), LAMBDA body :
             [i \in DOMAIN body |-> DictRow(grid[1], body[i])])

\* the grid csv.reader returns for the file csv.writer wrote from this grid, when the
\* file is read in text mode: a "\r\n" or "\r" inside a cell comes back as "\n"
GridRead(grid) ==
    [i \in DOMAIN grid |-> [j \in DOMAIN grid[i] |-> UniversalNewlines(grid[i][j])]]

\* DictWriter._dict_to_list: restval "", and None is written as the empty string
DictToList(rowdict, fieldnames) ==
    [i \in DOMAIN fieldnames |->
        IF fieldnames[i] \in DOMAIN rowdict /\ rowdict[fieldnames[i]] # None
        THEN rowdict[fieldnames[i]] ELSE <<>>]

RECURSIVE WriteRows(_, _, _)
\* DictWriter.writerows: the rows before the first row with a wrong field are written
WriteRows(data, fieldnames, grid) ==
    IF data = <<>> THEN [grid |-> grid, exc |-> ""]
    ELSE IF DOMAIN data[1] \ Range(fieldnames) # {}
         THEN [grid |-> grid, exc |-> "ValueError"]
         ELSE WriteRows(Tail(data), fieldnames,
                        Append(grid, DictToList(data[1], fieldnames)))

NoFile == [exists |-> FALSE, grid |-> <<>>]

\* save_csv_file(data, csv_path): the file it leaves at csv_path, and what it raises
save_csv_file(data) ==
    With(WriteRows(data, FIELDNAMES, <<FIELDNAMES>>), LAMBDA w :
        [file |-> [exists |-> TRUE, grid |-> w.grid], exc |-> w.exc])

(***************************************************************************)
(* Python dicts keyed by (normalized, lang).                               *)
(***************************************************************************)
DictKeys(d) == {d[i].key : i \in DOMAIN d}

DictHas(d, k) == k \in DictKeys(d)

DictGet(d, k) == d[CHOOSE i \in DOMAIN d : d[i].key = k].row

\* d[k] = v: a key already there keeps its place
DictSet(d, k, v) ==
    IF DictHas(d, k)
    THEN [i \in DOMAIN d |-> IF d[i].key = k THEN [key |-> k, row |-> v] ELSE d[i]]
    ELSE Append(d, [key |-> k, row |-> v])

\* list(d.values())
DictValues(d) == [i \in DOMAIN d |-> d[i].row]

\* row.setdefault(k, v)
SetDefault(row, k, v) ==
    IF k \in DOMAIN row THEN row
    ELSE [x \in DOMAIN row \cup {k} |-> IF x = k THEN v ELSE row[x]]

\* row.get(k, default)
RowGet(row, k, default) == IF k \in DOMAIN row THEN row[k] ELSE default

\* the key (normalized, lang) of a row, None standing for a field the row lacks
KeyOf(row) == <<RowGet(row, F.normalized, None), RowGet(row, F.lang, None)>>

CHECK == <<"check">>
CROSS == <<"cross">>

\* bool(key) for the tuple key: a tuple of two elements is true whatever they hold
KeyIsTrue(key) == Len(key) # 0

RECURSIVE LoadRows(_, _)
LoadRows(rows, existing_data) ==
    IF rows = <<>> THEN [store |-> existing_data, exc |-> ""]
    ELSE With(SetDefault(SetDefault(SetDefault(SetDefault(rows[1],
                  F.known, CROSS), F.category, <<>>), F.date_added, <<>>),
                  F.date_known, <<>>),
              LAMBDA row :
                  IF RowGet(row, F.normalized, <<>>) = None \/ RowGet(row, F.lang, <<>>) = None
                  THEN \* None.strip()
                       [store |-> existing_data, exc |-> "AttributeError"]
                  ELSE With(<<Strip(RowGet(row, F.normalized, <<>>)),
                              Strip(RowGet(row, F.lang, <<>>))>>,
                            LAMBDA key :
                                LoadRows(Tail(rows),
                                         IF KeyIsTrue(key)
                                         THEN DictSet(existing_data, key, row)
                                         ELSE existing_data)))

\* load_csv_cache(csv_path), given the file at csv_path
load_csv_cache(file) ==
    IF ~file.exists THEN [store |-> <<>>, exc |-> ""]
    ELSE LoadRows(DictReader(GridRead(file.grid)), <<>>)

(***************************************************************************)
(* The collaborators.  What the translator answers is not the code's to    *)
(* decide: its answer names the text and the language pair it was asked    *)
(* for.  In a run the translator raises for the texts of env.trFail and    *)
(* the synthesizer for the texts of env.ttsFail; a synthesis that raises   *)
(* leaves no file.                                                         *)
(***************************************************************************)
Translation(text, src, dest) == <<"tr", src, dest>> \o text

Sentinel(e) == <<"[", "translation_error", ":", " ">> \o e \o <<"]">>

\* str(e) of the exception the translator raises
TranslatorError == <<"boom">>

\* a translate_phrase that gives no text when the translator raises
translate_phrase_blank(phrase, dest, env) ==
    IF phrase \in env.trFail THEN <<>> ELSE Translation(phrase, "ro", dest)

\* translate_phrase(phrase, dest) of the application: src is always "ro"
translate_phrase(phrase, dest, env) ==
    IF phrase \in env.trFail THEN Sentinel(TranslatorError)
    ELSE Translation(phrase, "ro", dest)

\* the audio folder: a function from the names of the files in it to what each holds
NoAudio == [p \in {} |-> [text |-> <<>>, lang |-> ""]]

Extend(f, k, v) == [x \in DOMAIN f \cup {k} |-> IF x = k THEN v ELSE f[x]]

\* the number of synthesizer invocations for a path, counted as 0, 1 or "more"
CountUp(calls, path) ==
    Extend(calls, path, IF path \in DOMAIN calls /\ calls[path] >= 1 THEN 2 ELSE 1)

\* a speak that does not look for the file
speak_always(phrase, filename, lang, a, env) ==
    IF phrase = <<>> \/ phrase = None \/ phrase \in env.ttsFail
    THEN [audio |-> a.audio, gtts |-> CountUp(a.gtts, filename), exc |-> "gTTSError"]
    ELSE [audio |-> Extend(a.audio, filename, [text |-> phrase, lang |-> lang]),
          gtts |-> CountUp(a.gtts, filename), exc |-> ""]

\* speak(phrase, filename, lang): a.audio is the folder, a.gtts the invocations so far
speak(phrase, filename, lang, a, env) ==
    IF filename \in DOMAIN a.audio
    THEN [audio |-> a.audio, gtts |-> a.gtts, exc |-> ""]
    ELSE IF phrase = <<>> \/ phrase = None
    THEN \* gTTS(text=...) asserts that there is text to speak
         [audio |-> a.audio, gtts |-> CountUp(a.gtts, filename), exc |-> "AssertionError"]
    ELSE IF phrase \in env.ttsFail
    THEN [audio |-> a.audio, gtts |-> CountUp(a.gtts, filename), exc |-> "gTTSError"]
    ELSE [audio |-> Extend(a.audio, filename, [text |-> phrase, lang |-> lang]),
          gtts |-> CountUp(a.gtts, filename), exc |-> ""]

\* f"{normalized.replace(' ', '_')}_{lang}.mp3"
AudioName(normalized, lang) == Replace(normalized, <<" ">>, <<"_">>) \o <<"_", lang, ".mp3">>

(***************************************************************************)
(* process_phrases.  phrases is set(phrases) in the order the loop meets   *)
(* its elements, which Python leaves open.  The state of the loop: the     *)
(* cache, the result list (rkeys[i] is the cache key of results[i]: two    *)
(* entries of one key are one dict object), the audio folder, the calls of *)
(* the translator, and the exception that ended the loop, if any.          *)
(***************************************************************************)
NewRecord(phrase, normalized, lang, study_lang_code, category, today, env) ==
    [k \in Range(FIELDNAMES) |->
        CASE k = F.original -> phrase
          [] k = F.normalized -> normalized
          [] k = F.ipa -> apply_replacements(normalized,
                              IF study_lang_code = "ro" THEN IPA_REPLACEMENTS ELSE <<>>)
          [] k = F.ru_phonetic -> apply_replacements(normalized,
                              IF study_lang_code = "ro" THEN RU_REPLACEMENTS ELSE <<>>)
          [] k = F.translation -> translate_phrase(normalized,
                              IF lang # study_lang_code THEN lang ELSE "ru", env)
          [] k = F.lang -> <<lang>>
          [] k = F.known -> CROSS
          [] k = F.category -> Strip(category)
          [] k = F.date_added -> today
          [] k = F.date_known -> <<>>]

ProcessOne(st, phrase, lang, study_lang_code, category, today, env) ==
    With(normalize(phrase), LAMBDA normalized :
        IF DictHas(st.cache, <<normalized, <<lang>> >>)
        THEN [st EXCEPT !.results = Append(@, DictGet(st.cache, <<normalized, <<lang>> >>)),
                        !.rkeys = Append(@, <<normalized, <<lang>> >>)]
        ELSE With(speak(normalized, AudioName(normalized, study_lang_code),
                        study_lang_code, st, env),
                  LAMBDA sp :
             With(NewRecord(phrase, normalized, lang, study_lang_code, category, today, env),
                  LAMBDA result :
                      [cache |-> DictSet(st.cache, <<normalized, <<lang>> >>, result),
                       results |-> Append(st.results, result),
                       rkeys |-> Append(st.rkeys, <<normalized, <<lang>> >>),
                       translated |-> Append(st.translated,
                                             [key |-> <<normalized, <<lang>> >>,
                                              text |-> normalized,
                                              src |-> "ro",
                                              dest |-> IF lang # study_lang_code THEN lang
                                                       ELSE "ru"]),
                       audio |-> sp.audio, gtts |-> sp.gtts, exc |-> sp.exc])))

RECURSIVE ProcessLoop(_, _, _, _, _, _, _)
ProcessLoop(st, phrases, lang, study_lang_code, category, today, env) ==
    IF phrases = <<>> \/ st.exc # "" THEN st
    ELSE ProcessLoop(ProcessOne(st, phrases[1], lang, study_lang_code, category, today, env),
                     Tail(phrases), lang, study_lang_code, category, today, env)

process_phrases(phrases, cache, lang, study_lang_code, category, today, a, env) ==
    ProcessLoop([cache |-> cache, results |-> <<>>, rkeys |-> <<>>, translated |-> <<>>,
                 audio |-> a.audio, gtts |-> a.gtts, exc |-> ""],
                phrases, lang, study_lang_code, category, today, env)

(***************************************************************************)
(* The command line tool (romanian_transcriber.py).  Its normalize,        *)
(* apply_replacements and translate_phrase are those of the application,   *)
(* with the target language "ru"; its cache is keyed by the normalized     *)
(* text alone.  c is the tool's world: the csv file, the audio folder, the *)
(* synthesizer's invocations.                                              *)
(***************************************************************************)
CLI_FIELDNAMES == <<F.original, F.normalized, F.ipa, F.ru_phonetic, F.translation>>

RECURSIVE CliLoadRows(_, _)
CliLoadRows(rows, existing_data) ==
    IF rows = <<>> THEN [store |-> existing_data, exc |-> ""]
    ELSE IF RowGet(rows[1], F.normalized, <<>>) = None
         THEN \* None.strip()
              [store |-> existing_data, exc |-> "AttributeError"]
         ELSE CliLoadRows(Tail(rows),
                          IF Strip(RowGet(rows[1], F.normalized, <<>>)) # <<>>
                          THEN DictSet(existing_data,
                                       Strip(RowGet(rows[1], F.normalized, <<>>)), rows[1])
                          ELSE existing_data)

\* read_existing_csv(csv_path), given the file at csv_path
read_existing_csv(file) ==
    IF ~file.exists THEN [store |-> <<>>, exc |-> ""]
    ELSE CliLoadRows(DictReader(GridRead(file.grid)), <<>>)

\* speak(phrase, filename) of the tool: no look at the file, the language is "ro"
cli_speak(phrase, filename, a, env) ==
    IF phrase = <<>> \/ phrase = None
    THEN [audio |-> a.audio, gtts |-> CountUp(a.gtts, filename), exc |-> "AssertionError"]
    ELSE IF phrase \in env.ttsFail
    THEN [audio |-> a.audio, gtts |-> CountUp(a.gtts, filename), exc |-> "gTTSError"]
    ELSE [audio |-> Extend(a.audio, filename, [text |-> phrase, lang |-> "ro"]),
          gtts |-> CountUp(a.gtts, filename), exc |-> ""]

\* transcribe(phrase, cache): the result, whether the translator was called, what is raised
transcribe(phrase, cache, env) ==
    IF DictHas(cache, normalize(phrase))
    THEN [result |-> DictGet(cache, normalize(phrase)), called |-> FALSE,
          exc |-> IF Range(CLI_FIELDNAMES) \subseteq DOMAIN DictGet(cache, normalize(phrase))
                  THEN "" ELSE "KeyError"]
    ELSE [result |-> [k \in Range(CLI_FIELDNAMES) |->
                         CASE k = F.original -> phrase
                           [] k = F.normalized -> normalize(phrase)
                           [] k = F.ipa -> apply_replacements(normalize(phrase),
                                                              IPA_REPLACEMENTS)
                           [] k = F.ru_phonetic -> apply_replacements(normalize(phrase),
                                                                     RU_REPLACEMENTS)
                           [] k = F.translation -> translate_phrase(normalize(phrase),
                                                                    "ru", env)],
          called |-> TRUE, exc |-> ""]

\* one turn of the loop of main (lines 131-135)
CliOne(st, phrase, cache, env) ==
    With(transcribe(phrase, cache, env), LAMBDA t :
        IF t.exc # "" THEN [st EXCEPT !.exc = t.exc]
        ELSE With(cli_speak(t.result[F.normalized],
                            Replace(t.result[F.normalized], <<" ">>, <<"_">>) \o <<".mp3">>,
                            st, env),
                  LAMBDA sp :
                      [results |-> Append(st.results, t.result),
                       translated |-> IF t.called
                                      THEN Append(st.translated, normalize(phrase))
                                      ELSE st.translated,
                       audio |-> sp.audio, gtts |-> sp.gtts, exc |-> sp.exc]))

RECURSIVE CliLoop(_, _, _, _)
CliLoop(st, phrases, cache, env) ==
    IF phrases = <<>> \/ st.exc # "" THEN st
    ELSE CliLoop(CliOne(st, phrases[1], cache, env), Tail(phrases), cache, env)

\* save_to_csv(data, filename): the file it leaves, and what it raises
save_to_csv(data) ==
    With(WriteRows(data, CLI_FIELDNAMES, <<CLI_FIELDNAMES>>), LAMBDA w :
        [file |-> [exists |-> TRUE, grid |-> w.grid], exc |-> w.exc])

\* the tool before its first run, with the file at --csv
CliStart(file) ==
    [csv |-> file, audio |-> NoAudio, gtts |-> [p \in {} |-> 0], runs |-> 0,
     ran |-> FALSE, words |-> <<>>, cache |-> <<>>, translated |-> <<>>,
     results |-> <<>>, exc |-> ""]

\* main() with --words: unique_phrases is set(words) in the order the loop meets it
main(c, unique_phrases, env) ==
    With(read_existing_csv(c.csv), LAMBDA ld :
        With([c EXCEPT !.runs = @ + 1, !.ran = TRUE, !.words = unique_phrases,
                       !.cache = ld.store, !.translated = <<>>, !.results = <<>>,
                       !.exc = ld.exc],
             LAMBDA c1 :
        IF ld.exc # "" THEN c1
        ELSE With(CliLoop([results |-> DictValues(ld.store), translated |-> <<>>,
                           audio |-> c.audio, gtts |-> c.gtts, exc |-> ""],
                          unique_phrases, ld.store, env),
                  LAMBDA lp :
             With([c1 EXCEPT !.audio = lp.audio, !.gtts = lp.gtts,
                             !.translated = lp.translated, !.results = lp.results,
                             !.exc = lp.exc],
                  LAMBDA c2 :
        IF lp.exc # "" THEN c2
        ELSE With(save_to_csv(lp.results), LAMBDA sv :
                 [c2 EXCEPT !.csv = sv.file, !.exc = sv.exc])))))

(***************************************************************************)
(* The Streamlit script.  Every interaction runs the script from top to    *)
(* bottom with the widgets' values w and at most one button pressed; an    *)
(* exception ends the run where it is raised.  m is the state the run      *)
(* works on: the files, the audio folder and st.session_state, with        *)
(* m.exc the exception raised so far, m.writes the files written by this   *)
(* run, m.proc and m.merge what the process handler did, m.recon the rows  *)
(* the cards' loop met and what it made of them, and m.page the widgets    *)
(* the run has put on the page, with the keys of its cards.                *)
(*                                                                         *)
(* st.session_state['results'] is a list of references: results[i].id      *)
(* names the dict object at position i, and an assignment to a row's       *)
(* field shows at every position that holds the same object.               *)
(***************************************************************************)
\* "(не выбрана)"
NONE_SELECTED == <<"(none)">>

\* "(все)"
ALL == <<"(all)">>

CSV_CACHE_FILE == <<"transcription_cache.csv">>

Fresh(rows) == [i \in DOMAIN rows |-> [id |-> i, row |-> rows[i]]]

Rows(results) == [i \in DOMAIN results |-> results[i].row]

\* results of process_phrases: entries of one cache key are one object
Aliased(rows, rkeys) ==
    [i \in DOMAIN rows |->
        [id |-> CHOOSE j \in DOMAIN rows :
                    rkeys[j] = rkeys[i] /\ \A n \in 1..(j - 1) : rkeys[n] # rkeys[i],
         row |-> rows[i]]]

\* row[...] = ... on the object at position i
SetRow(results, i, row) ==
    [j \in DOMAIN results |->
        IF results[j].id = results[i].id THEN [id |-> results[j].id, row |-> row]
        ELSE results[j]]

Raise(m, e) == [m EXCEPT !.exc = e]

\* the log of a run's writes: what is "cache" for the values of the cache and "results"
\* for the rows that are, or become, st.session_state['results']
Written(m, what, path, rows) ==
    Append(m.writes, [of |-> what, path |-> path, rows |-> rows, overlay |-> m.overlay,
                      known_map |-> m.known_map, date_known_map |-> m.date_known_map])

\* what m.proc and m.merge are while the handler has not run
NotRun == [ran |-> FALSE]

\* lines 186-193: the selected session is read again by every run
LoadSession(m, w) ==
    IF w.load = NONE_SELECTED THEN m
    ELSE [m EXCEPT !.results = Fresh(DictReader(GridRead(m.sessions[w.load].grid)))]

RECURSIVE MergeKeep(_, _)
\* a merge that keeps the record a key already has
MergeKeep(merged, results) ==
    IF results = <<>> THEN [store |-> merged, exc |-> ""]
    ELSE MergeKeep(IF DictHas(merged, <<results[1][F.normalized], results[1][F.lang]>>)
                   THEN merged
                   ELSE DictSet(merged, <<results[1][F.normalized], results[1][F.lang]>>,
                                results[1]),
                   Tail(results))

RECURSIVE MergeLoop(_, _)
\* for r in results: merged[(r['normalized'], r['lang'])] = r
MergeLoop(merged, results) ==
    IF results = <<>> THEN [store |-> merged, exc |-> ""]
    ELSE IF F.normalized \notin DOMAIN results[1] \/ F.lang \notin DOMAIN results[1]
         THEN [store |-> merged, exc |-> "KeyError"]
         ELSE MergeLoop(DictSet(merged, <<results[1][F.normalized], results[1][F.lang]>>,
                                results[1]),
                        Tail(results))

\* f"session_{datetime.now().strftime('%Y%m%d_%H%M%S')}.csv"
SessionName(stamp) == <<"session_", stamp, ".csv">>

\* lines 219-228: append to the loaded session
AppendToSession(m, w, pr) ==
    With(load_csv_cache(m.sessions[w.load]), LAMBDA ld :
        IF ld.exc # "" THEN Raise(m, ld.exc)
        ELSE With(MergeLoop(ld.store, pr.results), LAMBDA mg :
        IF mg.exc # "" THEN Raise(m, mg.exc)
        ELSE With(save_csv_file(DictValues(mg.store)), LAMBDA sv :
             With([m EXCEPT !.sessions = [@ EXCEPT ![w.load] = sv.file],
                            !.writes = Written(m, "results", w.load, DictValues(mg.store)),
                            !.merge = [ran |-> TRUE, prior |-> ld.store,
                                       batch |-> pr.results, merged |-> mg.store,
                                       path |-> w.load]],
                  LAMBDA m1 :
                      IF sv.exc # "" THEN Raise(m1, sv.exc)
                      ELSE [m1 EXCEPT !.results = Fresh(DictValues(mg.store))]))))

\* lines 230-233: a new session file
NewSession(m, w, pr, stamp) ==
    With(save_csv_file(pr.results), LAMBDA sv :
    With([m EXCEPT !.sessions = Extend(@, SessionName(stamp), sv.file),
                   !.writes = Written(m, "results", SessionName(stamp), pr.results)],
         LAMBDA m1 : IF sv.exc # "" THEN Raise(m1, sv.exc) ELSE m1))

\* lines 218-235
SaveSession(m, w, pr, stamp) ==
    With(IF ~w.save_last THEN m
         ELSE IF w.load # NONE_SELECTED /\ w.append THEN AppendToSession(m, w, pr)
         ELSE NewSession(m, w, pr, stamp),
         LAMBDA m1 :
             IF m1.exc # "" \/ (w.load # NONE_SELECTED /\ w.append) THEN m1
             ELSE [m1 EXCEPT !.results = Aliased(pr.results, pr.rkeys)])

\* lines 213-235: the handler of the process button
ProcessHandler(m, w, env, today, stamp) ==
    With(load_csv_cache(m.cacheFile), LAMBDA c :
        IF c.exc # "" THEN Raise(m, c.exc)
        ELSE With(process_phrases(w.phrases, c.store, w.lang, w.study, w.category,
                                  today, m, env),
                  LAMBDA pr :
             With([m EXCEPT !.audio = pr.audio, !.gtts = pr.gtts,
                            !.proc = [ran |-> TRUE, phrases |-> w.phrases,
                                      lang |-> w.lang, study |-> w.study,
                                      before |-> c.store, cache |-> pr.cache,
                                      results |-> pr.results,
                                      translated |-> pr.translated, exc |-> pr.exc,
                                      trFail |-> env.trFail, ttsFail |-> env.ttsFail]],
                  LAMBDA m1 :
        IF pr.exc # "" THEN Raise(m1, pr.exc)
        ELSE With(save_csv_file(DictValues(pr.cache)), LAMBDA sv :
             With([m1 EXCEPT !.cacheFile = sv.file,
                             !.writes = Written(m1, "cache", CSV_CACHE_FILE,
                                                DictValues(pr.cache))],
                  LAMBDA m2 :
        IF sv.exc # "" THEN Raise(m2, sv.exc)
        ELSE SaveSession(m2, w, pr, stamp))))))

\* filter_text.lower() in row['original'].lower()
\*     or filter_text.lower() in row['translation'].lower()
MatchText(row, filter_text) ==
    IF F.original \notin DOMAIN row THEN "KeyError"
    ELSE IF row[F.original] = None THEN "AttributeError"
    ELSE IF Contains(Lower(row[F.original]), Lower(filter_text)) THEN "True"
    ELSE IF F.translation \notin DOMAIN row THEN "KeyError"
    ELSE IF row[F.translation] = None THEN "AttributeError"
    ELSE IF Contains(Lower(row[F.translation]), Lower(filter_text)) THEN "True"
    ELSE "False"

\* the rows at the positions idx
Pick(rows, idx) == [i \in DOMAIN idx |-> rows[idx[i]]]

\* the exception a list comprehension over rows raises, "" when it raises none
FirstExc(verdicts) ==
    IF \E i \in DOMAIN verdicts : verdicts[i] \notin {"True", "False"}
    THEN verdicts[CHOOSE i \in DOMAIN verdicts :
                      /\ verdicts[i] \notin {"True", "False"}
                      /\ \A j \in 1..(i - 1) : verdicts[j] \in {"True", "False"}]
    ELSE ""

RECURSIVE Positions(_, _)
\* the positions i with verdicts[i] = "True", in order
Positions(verdicts, i) ==
    IF i > Len(verdicts) THEN <<>>
    ELSE (IF verdicts[i] = "True" THEN <<i>> ELSE <<>>) \o Positions(verdicts, i + 1)

RECURSIVE ZipLoop(_, _, _, _, _, _)
\* the loop of make_zip_of_audio, and of the double-audio section, over rows
ZipLoop(a, rows, with_translation, lang, study_lang_code, env) ==
    IF rows = <<>> \/ a.exc # "" THEN a
    ELSE IF F.normalized \notin DOMAIN rows[1] THEN [a EXCEPT !.exc = "KeyError"]
    ELSE IF rows[1][F.normalized] = None THEN [a EXCEPT !.exc = "AttributeError"]
    ELSE With(speak(rows[1][F.normalized],
                    AudioName(rows[1][F.normalized], study_lang_code),
                    study_lang_code, a, env),
              LAMBDA ro :
        IF ro.exc # "" \/ ~with_translation
        THEN ZipLoop(ro, Tail(rows), with_translation, lang, study_lang_code, env)
        ELSE IF F.translation \notin DOMAIN rows[1] THEN [ro EXCEPT !.exc = "KeyError"]
        ELSE ZipLoop(speak(rows[1][F.translation], AudioName(rows[1][F.normalized], lang),
                           lang, ro, env),
                     Tail(rows), with_translation, lang, study_lang_code, env))

\* make_zip_of_audio(phrases, results, with_translation, lang, study_lang_code):
\* the files it has speak() write; the archive and the mixed clips are not modelled
make_zip_of_audio(rows, with_translation, lang, study_lang_code, a, env) ==
    ZipLoop([audio |-> a.audio, gtts |-> a.gtts, exc |-> ""],
            rows, with_translation, lang, study_lang_code, env)

\* lines 239-283: the first results section
ResultsSection(m, w, env) ==
    IF m.results = <<>> THEN m
    ELSE With([i \in DOMAIN m.results |-> MatchText(m.results[i].row, w.filter1)],
              LAMBDA verdicts :
        IF FirstExc(verdicts) # "" THEN Raise(m, FirstExc(verdicts))
        ELSE IF ~m.cacheFile.exists
             THEN \* open(CSV_CACHE_FILE, "rb") for the download button
                  Raise(m, "FileNotFoundError")
        ELSE With(Pick(Rows(m.results), Positions(verdicts, 1)), LAMBDA filtered :
             With(make_zip_of_audio(filtered, FALSE, w.lang, w.study, m, env), LAMBDA z1 :
             With(IF w.double /\ z1.exc = ""
                  THEN make_zip_of_audio(filtered, TRUE, w.lang, w.study, z1, env)
                  ELSE z1,
                  LAMBDA z2 :
                      [m EXCEPT !.audio = z2.audio, !.gtts = z2.gtts, !.exc = z2.exc]))))

\* a row of df_display (lines 305-310); the conditions are evaluated left to right
Displayed(row, w) ==
    IF w.only_unknown /\ RowGet(row, F.known, None) = CHECK THEN "False"
    ELSE IF w.category_sel # ALL /\ RowGet(row, F.category, <<>>) # w.category_sel
         THEN "False"
    ELSE MatchText(row, w.filter2)

\* a row that keeps what it holds, whatever the maps say
ReconcileStored(row, k, known_map, date_known_map) ==
    Extend(Extend(row, F.known, RowGet(row, F.known, CROSS)),
           F.date_known, RowGet(row, F.date_known, <<>>))

\* lines 324-327: the row with the status the maps hold for its key k, its own otherwise
Reconcile(row, k, known_map, date_known_map) ==
    Extend(Extend(row,
               F.known, IF k \in DOMAIN known_map THEN known_map[k]
                        ELSE RowGet(row, F.known, CROSS)),
           F.date_known, IF k \in DOMAIN date_known_map THEN date_known_map[k]
                         ELSE RowGet(row, F.date_known, <<>>))

\* an assignment to known_map[k] alone
SetKnownOnly(m, k, known, date_known) == [m EXCEPT !.known_map = Extend(@, k, known)]

\* lines 356-357: st.session_state['known_map'][k] = ...; ...['date_known_map'][k] = ...
SetKnown(m, k, known, date_known) ==
    [m EXCEPT !.known_map = Extend(@, k, known),
              !.date_known_map = Extend(@, k, date_known)]

\* lines 319-364: one card.  btn is the button pressed in this run, at card btn.idx
Card(m, p, idx, btn, w, env, today) ==
    With(m.results[p].row, LAMBDA row :
        IF F.normalized \notin DOMAIN row \/ F.lang \notin DOMAIN row
        THEN Raise(m, "KeyError")
        ELSE With(<<row[F.normalized], row[F.lang]>>, LAMBDA k :
             With(Reconcile(row, k, m.known_map, m.date_known_map), LAMBDA row1 :
             With([m EXCEPT !.results = SetRow(m.results, p, row1),
                            !.recon = Append(@, [before |-> row, after |-> row1,
                                                 known_map |-> m.known_map,
                                                 date_known_map |-> m.date_known_map])],
                  LAMBDA m1 :
        IF row[F.normalized] = None THEN Raise(m1, "AttributeError")
        ELSE With(speak(row[F.normalized], AudioName(row[F.normalized], w.study),
                        w.study, m1, env),
                  LAMBDA sp :
        IF sp.exc # ""
        THEN [m1 EXCEPT !.audio = sp.audio, !.gtts = sp.gtts, !.exc = sp.exc]
        ELSE \* both buttons of the card are on the page
             With([m1 EXCEPT !.audio = sp.audio, !.gtts = sp.gtts, !.page.cards = idx,
                             !.page.keys = Append(@, k)],
                  LAMBDA m2 :
        IF btn.name = "know" /\ btn.idx = idx
        THEN [SetKnown(m2, k, CHECK, today)
                  EXCEPT !.results = SetRow(m2.results, p,
                             Extend(Extend(row1, F.known, CHECK), F.date_known, today))]
        ELSE IF btn.name = "dontknow" /\ btn.idx = idx
             THEN \* k is bound only in the branch of the other button
                  Raise(m2, "NameError")
        ELSE m2))))))

RECURSIVE Cards(_, _, _, _, _, _, _)
Cards(m, display, idx, btn, w, env, today) ==
    IF idx > Len(display) \/ m.exc # "" THEN m
    ELSE Cards(Card(m, display[idx], idx, btn, w, env, today),
               display, idx + 1, btn, w, env, today)

\* lines 366-371 and 391-398: both save buttons
SaveProgress(m, w) ==
    With(save_csv_file(Rows(m.results)), LAMBDA sv :
    With([m EXCEPT !.cacheFile = sv.file,
                   !.writes = Written(m, "results", CSV_CACHE_FILE, Rows(m.results))],
         LAMBDA m1 :
             IF sv.exc # "" THEN Raise(m1, sv.exc)
             ELSE IF w.load # NONE_SELECTED
                  THEN [m1 EXCEPT !.sessions = [@ EXCEPT ![w.load] = sv.file],
                                  !.writes = Written(m1, "results", w.load, Rows(m.results))]
             ELSE m1))

\* lines 382-385: row.setdefault(...) on every row of df_display
TableDefaults(results, display) ==
    [j \in DOMAIN results |->
        IF \E i \in DOMAIN display : results[display[i]].id = results[j].id
        THEN [id |-> results[j].id,
              row |-> SetDefault(SetDefault(SetDefault(results[j].row,
                          F.date_added, <<>>), F.date_known, <<>>), F.category, <<>>)]
        ELSE results[j]]

\* lines 286-465: the second results section
CardsSection(m, w, btn, env, today) ==
    IF m.results = <<>> THEN m
    ELSE With([m EXCEPT !.overlay = TRUE, !.page.filter = TRUE], LAMBDA m0 :
         With([i \in DOMAIN m.results |-> Displayed(m.results[i].row, w)],
              LAMBDA verdicts :
        IF FirstExc(verdicts) # "" THEN Raise(m0, FirstExc(verdicts))
        ELSE With(Positions(verdicts, 1), LAMBDA display :
             With(Cards(m0, display, 1, btn, w, env, today), LAMBDA c :
        IF c.exc # "" THEN c
        ELSE With(IF btn.name = "save_cards"
                  THEN SaveProgress([c EXCEPT !.page.save_cards = TRUE], w)
                  ELSE [c EXCEPT !.page.save_cards = TRUE],
                  LAMBDA m2 :
        IF m2.exc # "" THEN m2
        ELSE With([m2 EXCEPT !.results = TableDefaults(m2.results, display)], LAMBDA m3 :
        IF display = <<>>
        THEN \* pd.DataFrame([])[[...]] has none of the columns
             Raise(m3, "KeyError")
        ELSE IF btn.name = "save_known"
             THEN SaveProgress([m3 EXCEPT !.page.save_known = TRUE], w)
        ELSE [m3 EXCEPT !.page.save_known = TRUE]))))))

\* one run of the script
Script(m, w, btn, env, today, stamp) ==
    With(LoadSession(m, w), LAMBDA a :
    With(IF btn.name = "process" /\ w.phrases # <<>>
         THEN ProcessHandler(a, w, env, today, stamp) ELSE a,
         LAMBDA b :
    With(IF b.exc # "" THEN b ELSE ResultsSection(b, w, env), LAMBDA c :
        IF c.exc # "" THEN c ELSE CardsSection(c, w, btn, env, today))))

(***************************************************************************)
(* The state.                                                              *)
(***************************************************************************)
VARIABLES
    now,             \* the clock, in ticks
    runs,            \* the script runs so far
    batches,         \* the batches processed so far
    cacheFile,       \* the file at CSV_CACHE_FILE
    sessions,        \* the files in LAST_SESSION_FOLDER, by name
    audio,           \* the files in AUDIO_FOLDER, by name
    gtts,            \* the synthesizer's invocations, by path
    results,         \* st.session_state['results']
    known_map,       \* st.session_state['known_map']
    date_known_map,  \* st.session_state['date_known_map']
    overlay,         \* 'known_map' in st.session_state
    load_session,    \* the session chosen in the sidebar
    filter_text,     \* the text of the widget with key "filter_text"
    page,            \* the widgets the last run put on the page
    last,            \* what the last run did
    cli,             \* the command line tool: its csv file, its audio folder, its last run
    trip,            \* a store on its way to a csv file and back
    calc,            \* a text on its way through normalize and apply_replacements
    race             \* two processes at work on the cache file, and the file's text

vars == <<now, runs, batches, cacheFile, sessions, audio, gtts, results, known_map,
          date_known_map, overlay, load_session, filter_text, page, last, cli, trip,
          calc, race>>

\* the bounds of the model
MaxNow == 1
MaxReruns == 3
MaxProcess == 1
MaxBatch == 2

\* datetime.now().strftime('%Y-%m-%d') and ...strftime('%Y%m%d_%H%M%S'): a tick is a day
Today == <<(<<"2024-01-01", "2024-01-02", "2024-01-03", "2024-01-04">>)[now + 1]>>
Stamp ==
    (<<"20240101_000000", "20240102_000000", "20240103_000000", "20240104_000000">>)[now + 1]

P_Vinere == <<"V", "i", "n", "e", "r", "e">>
P_vineri == <<"v", "i", "n", "e", "r", "i">>
P_ce == <<"c", "e">>

\* the lines a user enters
PhraseUniverse == {P_Vinere, P_vineri, P_ce}

\* set(phrases), in every order the loop can meet it
Batches ==
    {b \in UNION {[1..n -> PhraseUniverse] : n \in 1..MaxBatch} :
        \A i, j \in DOMAIN b : i # j => b[i] # b[j]}

NoEnv == [trFail |-> {}, ttsFail |-> {}]

\* the phrases for which the translator, or the synthesizer, is out of order
Envs == {NoEnv,
         [trFail |-> {P_vineri}, ttsFail |-> {}],
         [trFail |-> {}, ttsFail |-> {P_vineri}]}

NoButton == [name |-> "none", idx |-> 0]

EmptyMap == [k \in {} |-> <<>>]

NoPage == [filter |-> FALSE, cards |-> 0, keys |-> <<>>, save_cards |-> FALSE,
           save_known |-> FALSE]

NoLast == [btn |-> "none", idx |-> 0, double |-> FALSE, exc |-> "", writes |-> <<>>,
           proc |-> NotRun, merge |-> NotRun, recon |-> <<>>]

\* what trip, calc and race are when no store or text is on its way and nothing writes
NotUsed == [step |-> "none"]

\* a session file of an earlier day
OLD_SESSION == SessionName("20231231_000000")

\* the record process_phrases built for a phrase on an earlier day, its status as the
\* know button and a save left it
OldRecord(phrase, lang, known) ==
    With(NewRecord(phrase, normalize(phrase), lang, "ro", <<>>, <<"2023-12-31">>, NoEnv),
         LAMBDA r :
             IF known
             THEN Extend(Extend(r, F.known, CHECK), F.date_known, <<"2023-12-31">>)
             ELSE r)

FileOf(rows) == save_csv_file(rows).file

\* the files earlier runs of the application left behind
InitFiles ==
    {[cache |-> NoFile, session |-> NoFile],
     [cache |-> FileOf(<<OldRecord(P_Vinere, "ru", FALSE)>>), session |-> NoFile],
     [cache |-> FileOf(<<OldRecord(P_Vinere, "ru", FALSE)>>),
      session |-> FileOf(<<OldRecord(P_Vinere, "ru", TRUE)>>)],
     [cache |-> FileOf(<<OldRecord(P_ce, "ru", FALSE)>>),
      session |-> FileOf(<<OldRecord(P_vineri, "ru", TRUE)>>)],
     [cache |-> FileOf(<<OldRecord(P_Vinere, "ru", FALSE), OldRecord(P_ce, "ru", FALSE)>>),
      session |-> FileOf(<<OldRecord(P_Vinere, "ru", FALSE),
                           OldRecord(P_ce, "ru", FALSE)>>)]}

\* the first state, with the files of one of the choices in files
InitWith(files) ==
    /\ now = 0
    /\ runs = 0
    /\ batches = 0
    /\ \E f \in files :
          /\ cacheFile = f.cache
          /\ sessions = IF f.session.exists
                        THEN [n \in {OLD_SESSION} |-> f.session]
                        ELSE [n \in {} |-> NoFile]
    /\ audio = NoAudio
    /\ gtts = [p \in {} |-> 0]
    /\ results = <<>>
    /\ known_map = EmptyMap
    /\ date_known_map = EmptyMap
    /\ overlay = FALSE
    /\ load_session = NONE_SELECTED
    /\ filter_text = <<>>
    /\ page = NoPage
    /\ last = NoLast

Init ==
    /\ InitWith(InitFiles)
    /\ cli = CliStart(NoFile)
    /\ trip = NotUsed
    /\ calc = NotUsed
    /\ race = NotUsed

\* the state a run of the script starts from
M0 == [cacheFile |-> cacheFile, sessions |-> sessions, audio |-> audio, gtts |-> gtts,
       results |-> results, known_map |-> known_map, date_known_map |-> date_known_map,
       overlay |-> overlay, page |-> NoPage, exc |-> "", writes |-> <<>>,
       proc |-> NotRun, merge |-> NotRun, recon |-> <<>>]

\* the widgets' values of a run: the language pair and the other filters stay as they are
Widgets(load, filter, phrases, save_last, append) ==
    [study |-> "ro", lang |-> "ru", load |-> load, save_last |-> save_last,
     append |-> append, phrases |-> phrases, category |-> <<>>, filter1 |-> <<>>,
     double |-> FALSE, filter2 |-> filter, only_unknown |-> FALSE, category_sel |-> ALL]

\* the state a run that ended as m leaves behind
Finish(m, w, btn) ==
    /\ runs < MaxReruns
    /\ runs' = runs + 1
    /\ batches' = IF btn.name = "process" THEN batches + 1 ELSE batches
    /\ now' = now
    /\ cacheFile' = m.cacheFile
    /\ sessions' = m.sessions
    /\ audio' = m.audio
    /\ gtts' = m.gtts
    /\ results' = m.results
    /\ known_map' = m.known_map
    /\ date_known_map' = m.date_known_map
    /\ overlay' = m.overlay
    /\ load_session' = w.load
    /\ filter_text' = w.filter2
    /\ page' = m.page
    /\ last' = [btn |-> btn.name, idx |-> btn.idx, double |-> w.double, exc |-> m.exc,
                writes |-> m.writes, proc |-> m.proc, merge |-> m.merge, recon |-> m.recon]
    /\ cli' = cli
    /\ trip' = trip
    /\ calc' = calc
    /\ race' = race

Run(w, btn, env) == Finish(Script(M0, w, btn, env, Today, Stamp), w, btn)

\* the widgets as the last run left them
Same == Widgets(load_session, filter_text, <<>>, TRUE, TRUE)

\* time passes
Tick ==
    /\ now < MaxNow
    /\ now' = now + 1
    /\ UNCHANGED <<runs, batches, cacheFile, sessions, audio, gtts, results, known_map,
                   date_known_map, overlay, load_session, filter_text, page, last, cli,
                   trip, calc, race>>

\* the page is opened or a session is chosen in the sidebar
SelectSession ==
    \E ld \in {NONE_SELECTED} \cup DOMAIN sessions :
        Run(Widgets(ld, filter_text, <<>>, TRUE, TRUE), NoButton, NoEnv)

\* the filter of the cards is edited
TypeFilter ==
    /\ page.filter
    /\ \E ft \in {<<>>, <<"c", "e">>} : Run(Widgets(load_session, ft, <<>>, TRUE, TRUE), NoButton, NoEnv)

\* phrases are entered, the two session checkboxes set and the process button pressed
ProcessClick ==
    /\ batches < MaxProcess
    /\ \E ph \in Batches, save_last \in BOOLEAN, append \in BOOLEAN, env \in Envs :
          Run(Widgets(load_session, filter_text, ph, save_last, append),
              [name |-> "process", idx |-> 0], env)

KnowClick == \E i \in 1..page.cards : Run(Same, [name |-> "know", idx |-> i], NoEnv)

DontKnowClick == \E i \in 1..page.cards : Run(Same, [name |-> "dontknow", idx |-> i], NoEnv)

SaveCardsClick == page.save_cards /\ Run(Same, [name |-> "save_cards", idx |-> 0], NoEnv)

SaveKnownClick == page.save_known /\ Run(Same, [name |-> "save_known", idx |-> 0], NoEnv)

Next ==
    \/ Tick
    \/ SelectSession
    \/ TypeFilter
    \/ ProcessClick
    \/ KnowClick
    \/ DontKnowClick
    \/ SaveCardsClick
    \/ SaveKnownClick

Spec == Init /\ [][Next]_vars

(***************************************************************************)
(* Appending to a session: the session files of earlier days hold up to    *)
(* three records, and a batch of up to three phrases is appended to the    *)
(* session chosen in the sidebar.                                          *)
(***************************************************************************)
MaxPrior == 3
MaxAppend == 3

\* the sequences of at most n elements of S, without repetition
Arrangements(S, n) ==
    {b \in UNION {[1..k -> S] : k \in 1..n} : \A i, j \in DOMAIN b : i # j => b[i] # b[j]}

MergeFiles ==
    {[cache |-> c,
      session |-> FileOf([i \in DOMAIN ph |-> OldRecord(ph[i], "ru", TRUE)])] :
        c \in {NoFile, FileOf(<<OldRecord(<<"a">>, "ru", FALSE)>>)},
        ph \in Arrangements({<<"a">>, <<"b">>, <<"c">>}, MaxPrior)}

InitMerge ==
    /\ InitWith(MergeFiles)
    /\ cli = CliStart(NoFile)
    /\ trip = NotUsed
    /\ calc = NotUsed
    /\ race = NotUsed

\* phrases are entered and the process button pressed, with "save session" and
\* "append to the loaded session" set and a session loaded
AppendClick ==
    /\ batches < MaxProcess
    /\ load_session # NONE_SELECTED
    /\ \E ph \in Arrangements({<<"A">>, <<"a">>, <<"d">>, <<"e">>}, MaxAppend) :
          Run(Widgets(load_session, filter_text, ph, TRUE, TRUE),
              [name |-> "process", idx |-> 0], NoEnv)

NextMerge ==
    \/ SelectSession
    \/ AppendClick

SpecMerge == InitMerge /\ [][NextMerge]_vars

(***************************************************************************)
(* The command line tool, run with --words on the csv file of its earlier  *)
(* runs.                                                                   *)
(***************************************************************************)
MaxCliRuns == 2

\* the csv file an earlier run of the tool wrote for the phrase
CliFileOf(phrase) ==
    save_to_csv(<<transcribe(phrase, <<>>, NoEnv).result>>).file

InitCli ==
    /\ InitWith({[cache |-> NoFile, session |-> NoFile]})
    /\ \E f \in {NoFile, CliFileOf(P_Vinere), CliFileOf(P_ce)} : cli = CliStart(f)
    /\ trip = NotUsed
    /\ calc = NotUsed
    /\ race = NotUsed

CliRun ==
    /\ cli.runs < MaxCliRuns
    /\ \E words \in Batches, env \in Envs : cli' = main(cli, words, env)
    /\ UNCHANGED <<now, runs, batches, cacheFile, sessions, audio, gtts, results, known_map,
                   date_known_map, overlay, load_session, filter_text, page, last, trip,
                   calc, race>>

SpecCli == InitCli /\ [][CliRun]_vars

(***************************************************************************)
(* save_csv_file and the loaders on their own, character by character: a   *)
(* store is saved, the file's text is loaded by load_csv_cache, by         *)
(* read_existing_csv and as a session, and what load_csv_cache returned is *)
(* saved again.  The text is what save_csv_file writes for a store, a file *)
(* as an editor left it, or a file of the time before the newer columns.   *)
(***************************************************************************)
MaxRecords == 2

\* a record of ten fields
RecordOf(normalized, translation) ==
    [k \in Range(FIELDNAMES) |->
        CASE k = F.original -> normalized
          [] k = F.normalized -> normalized
          [] k = F.translation -> translation
          [] k = F.lang -> <<"ru">>
          [] k = F.known -> CROSS
          [] OTHER -> <<>>]

\* the records of the stores: the translation holds a comma, a quote, a line end
TripRecords ==
    {RecordOf(n, t) :
        n \in {<<"a">>, <<"b">>},
        t \in {<<"x">>, <<>>, <<"x", ",", "y">>, <<"x", "\"", "y">>, <<"x", "\n", "y">>,
               <<"x", "\r", "y">>, <<" ", "x">>}}

\* the stores of well-formed records: ten fields each, no key twice
TripStores ==
    {st \in UNION {[1..n -> TripRecords] : n \in 1..MaxRecords} :
        \A i, j \in DOMAIN st : i # j => KeyOf(st[i]) # KeyOf(st[j])}

\* the application and the tool are not run
Idle ==
    UNCHANGED <<now, runs, batches, cacheFile, sessions, audio, gtts, results, known_map,
                date_known_map, overlay, load_session, filter_text, page, last, cli>>

\* rows as an editor leaves them: no normalized text, a blank one, a row cut short
EditedRows ==
    {DictToList(RecordOf(<<>>, <<"x">>), FIELDNAMES),
     DictToList(RecordOf(<<" ">>, <<"x">>), FIELDNAMES),
     DictToList(RecordOf(<<"a">>, <<"x">>), FIELDNAMES),
     <<<<"a">>>>}

InitTrip ==
    /\ InitWith({[cache |-> NoFile, session |-> NoFile]})
    /\ cli = CliStart(NoFile)
    /\ calc = NotUsed
    /\ race = NotUsed
    /\ \/ \E st \in TripStores : trip = [step |-> "store", data |-> st]
       \/ \E r1 \in EditedRows, r2 \in EditedRows \cup {<<>>} :
              trip = [step |-> "file", edited |-> TRUE, cols |-> Len(FIELDNAMES),
                      text |-> csv_writer(<<FIELDNAMES, r1>> \o
                                          (IF r2 = <<>> THEN <<>> ELSE <<r2>>))]
       \/ \E st \in TripStores :
              \* a file of the time before the columns known, category, date_added
              \* and date_known: the store's records under the six columns of that time
              trip = [step |-> "file", edited |-> TRUE, cols |-> 6,
                      text |-> csv_writer(<<SubSeq(FIELDNAMES, 1, 6)>> \o
                                  [i \in DOMAIN st |->
                                      DictToList(st[i], SubSeq(FIELDNAMES, 1, 6))])]

\* save_csv_file(data, path): the text of the file
TripSave ==
    /\ Idle
    /\ UNCHANGED <<calc, race>>
    /\ trip.step = "store"
    /\ trip' = [step |-> "file", edited |-> FALSE, cols |-> Len(FIELDNAMES),
                data |-> trip.data,
                text |-> csv_writer(save_csv_file(trip.data).file.grid)]

\* load_csv_cache(path), read_existing_csv(path) and the load of a session (lines
\* 188-190 of the application), each of the file's text
TripLoad ==
    /\ Idle
    /\ UNCHANGED <<calc, race>>
    /\ trip.step = "file"
    /\ trip' = [trip EXCEPT !.step = "loaded"] @@
               [gui |-> LoadRows(DictReader(csv_reader(trip.text)), <<>>),
                tool |-> CliLoadRows(DictReader(csv_reader(trip.text)), <<>>),
                session |-> DictReader(csv_reader(trip.text))]

\* save_csv_file(list(store.values()), path) for the store load_csv_cache returned
TripSaveAgain ==
    /\ Idle
    /\ UNCHANGED <<calc, race>>
    /\ trip.step = "loaded"
    /\ trip.gui.exc = ""
    /\ trip' = [trip EXCEPT !.step = "saved again"] @@
               [again |-> csv_writer(save_csv_file(DictValues(trip.gui.store)).file.grid)]

NextTrip ==
    \/ TripSave
    \/ TripLoad
    \/ TripSaveAgain

SpecTrip == InitTrip /\ [][NextTrip]_vars

(***************************************************************************)
(* The two language selectboxes: batches are processed, each with a study  *)
(* language and a translation language of its own, into a new session.     *)
(***************************************************************************)
MaxLangRuns == 2

\* the selectboxes are set, phrases entered and the process button pressed
LangClick ==
    /\ batches < MaxLangRuns
    /\ \E study \in {"ro", "en"}, lang \in {"ru", "en"}, ph \in Batches :
          Run([Widgets(load_session, filter_text, ph, TRUE, FALSE)
                   EXCEPT !.study = study, !.lang = lang],
              [name |-> "process", idx |-> 0], NoEnv)

SpecLang == Init /\ [][LangClick]_vars

(***************************************************************************)
(* The audio folder: batches of phrases, two of which differ in a space    *)
(* and an underscore alone, are processed under either study language and  *)
(* either translation language, with the double audio (phrase and          *)
(* translation) on or off.                                                 *)
(***************************************************************************)
MaxAudioRuns == 2

P_a_b == <<"a", " ", "b">>
P_a_u_b == <<"a", "_", "b">>

\* set(phrases) of the phrases entered, in every order the loop can meet it
AudioBatches ==
    {b \in UNION {[1..n -> {P_ce, P_a_b, P_a_u_b}] : n \in 1..MaxBatch} :
        \A i, j \in DOMAIN b : i # j => b[i] # b[j]}

\* the selectboxes and the double audio checkbox are set, phrases entered and the
\* process button pressed
AudioClick ==
    /\ batches < MaxAudioRuns
    /\ \E study \in {"ro", "en"}, lang \in {"ru", "en"}, double \in BOOLEAN,
          ph \in AudioBatches :
          Run([Widgets(load_session, filter_text, ph, TRUE, FALSE)
                   EXCEPT !.study = study, !.lang = lang, !.double = double],
              [name |-> "process", idx |-> 0], NoEnv)

SpecAudio == Init /\ [][AudioClick]_vars

(***************************************************************************)
(* normalize and apply_replacements on their own: a text is normalized,    *)
(* and what normalize returned is normalized again; a text is transcribed  *)
(* with both rulesets.  The texts are made of a few tokens (the key and    *)
(* the value of NORMALIZATION_MAP, the key with a capital, another word,   *)
(* white space) or of a few letters (those of the digraphs, one of them as *)
(* a capital, and two letters of single-character rules).                  *)
(***************************************************************************)
MaxTokens == 4
MaxLetters == 4

\* the texts of at most MaxTokens tokens, and those of at most MaxLetters letters
CalcInputs ==
    {Join(<<>>, ts) :
        ts \in UNION {[1..n -> {P_Vinere, P_vineri, P_ce, <<" ">>, <<"\n">>}] :
                         n \in 0..MaxTokens}}
    \cup UNION {[1..n -> {"c", "e", "i", "g", "h", "C", "a", "s_comma"}] :
                   n \in 1..MaxLetters}

InitCalc ==
    /\ InitWith({[cache |-> NoFile, session |-> NoFile]})
    /\ cli = CliStart(NoFile)
    /\ trip = NotUsed
    /\ race = NotUsed
    /\ \E x \in CalcInputs : calc = [step |-> "input", x |-> x]

\* normalize(x)
CalcNormalize ==
    /\ Idle
    /\ UNCHANGED <<trip, race>>
    /\ calc.step = "input"
    /\ calc' = [step |-> "normalized", x |-> calc.x, y |-> normalize(calc.x)]

\* normalize(normalize(x))
CalcAgain ==
    /\ Idle
    /\ UNCHANGED <<trip, race>>
    /\ calc.step = "normalized"
    /\ calc' = [calc EXCEPT !.step = "normalized again"] @@ [z |-> normalize(calc.y)]

\* apply_replacements(x, IPA_REPLACEMENTS) and apply_replacements(x, RU_REPLACEMENTS)
CalcTranscribe ==
    /\ Idle
    /\ UNCHANGED <<trip, race>>
    /\ calc.step = "input"
    /\ calc' = [step |-> "transcribed", x |-> calc.x,
                ipa |-> apply_replacements(calc.x, IPA_REPLACEMENTS),
                ru_phonetic |-> apply_replacements(calc.x, RU_REPLACEMENTS)]

NextCalc ==
    \/ CalcNormalize
    \/ CalcAgain
    \/ CalcTranscribe

SpecCalc == InitCalc /\ [][NextCalc]_vars

(***************************************************************************)
(* Two processes on one cache file.  Each runs lines 215-217 of the        *)
(* application for a batch of its own: it loads the file and processes its *)
(* batch, then save_csv_file opens the file for writing, which empties it, *)
(* and on leaving the with block writes the text it has buffered, from the *)
(* start of the file (a cache of this size is one write).  The processes'  *)
(* steps interleave in every order; no step waits for another process.     *)
(***************************************************************************)
InitRace ==
    /\ InitWith({[cache |-> NoFile, session |-> NoFile]})
    /\ cli = CliStart(NoFile)
    /\ trip = NotUsed
    /\ calc = NotUsed
    /\ \E old \in {<<>>, <<OldRecord(P_ce, "ru", FALSE)>>, <<OldRecord(P_vineri, "ru", TRUE)>>},
          b \in [1..2 -> Batches] :
          /\ b[1] # b[2]
          /\ race = [step |-> "run",
                     exists |-> old # <<>>,
                     text |-> IF old = <<>> THEN <<>> ELSE csv_writer(FileOf(old).grid),
                     order |-> <<>>,
                     w |-> [p \in 1..2 |->
                              [pc |-> "start", phrases |-> b[p], exc |-> "", text |-> <<>>]]]

\* lines 215-216: cache = load_csv_cache(CSV_CACHE_FILE), process_phrases(phrases, cache)
RaceLoad(p) ==
    /\ race.step = "run"
    /\ race.w[p].pc = "start"
    /\ race' =
          With(IF race.exists THEN LoadRows(DictReader(csv_reader(race.text)), <<>>)
               ELSE [store |-> <<>>, exc |-> ""],
               LAMBDA ld :
                   IF ld.exc # ""
                   THEN [race EXCEPT !.w[p].pc = "failed", !.w[p].exc = ld.exc]
                   ELSE [race EXCEPT
                            !.w[p].pc = "processed",
                            !.w[p].text =
                                csv_writer(save_csv_file(DictValues(
                                    process_phrases(race.w[p].phrases, ld.store, "ru", "ro",
                                        <<>>, Today, [audio |-> NoAudio, gtts |-> <<>>],
                                        NoEnv).cache)).file.grid)])
    /\ Idle
    /\ UNCHANGED <<trip, calc>>

\* line 106: open(csv_path, mode="w") makes the file, or empties it
RaceOpen(p) ==
    /\ race.step = "run"
    /\ race.w[p].pc = "processed"
    /\ race' = [race EXCEPT !.w[p].pc = "open", !.exists = TRUE, !.text = <<>>]
    /\ Idle
    /\ UNCHANGED <<trip, calc>>

\* lines 114-115 and the end of the with block: the text is written from the start of the
\* file, over what is there; what is there beyond the text's length stays
RaceWrite(p) ==
    /\ race.step = "run"
    /\ race.w[p].pc = "open"
    /\ race' = [race EXCEPT
                   !.w[p].pc = "done",
                   !.order = Append(@, p),
                   !.text = race.w[p].text
                            \o SubSeq(@, Len(race.w[p].text) + 1, Len(@))]
    /\ Idle
    /\ UNCHANGED <<trip, calc>>

NextRace == \E p \in 1..2 : RaceLoad(p) \/ RaceOpen(p) \/ RaceWrite(p)

SpecRace == InitRace /\ [][NextRace]_vars

(***************************************************************************)
(* The claims.                                                             *)
(***************************************************************************)
\* the row carries the overlay's status, when the overlay has an entry for its key
Reconciled(row, wr) ==
    (wr.overlay /\ KeyOf(row) \in DOMAIN wr.known_map) =>
        /\ RowGet(row, F.known, None) = wr.known_map[KeyOf(row)]
        /\ RowGet(row, F.date_known, None) = wr.date_known_map[KeyOf(row)]

\* C1: whenever a run writes the results to the cache file or to a session file, every
\* record written whose key (normalized, lang) has an overlay entry carries the
\* overlay's known and date_known, whether or not the filters display it.
C1_ReconciliationPrecedesEveryWrite ==
    \A i \in DOMAIN last.writes :
        last.writes[i].of = "results" =>
            \A j \in DOMAIN last.writes[i].rows :
                Reconciled(last.writes[i].rows[j], last.writes[i])

\* C2: in append mode, for a key k that the prior session store holds with known = check
\* and the batch holds with known = cross, the record written back to the session file
\* for k has known = cross when the overlay has no entry for k, and known = check when
\* the overlay holds check for k.
C2_MergeWithOverlay ==
    last.merge.ran =>
        \A i \in DOMAIN last.writes :
            (last.writes[i].of = "results" /\ last.writes[i].path = last.merge.path) =>
                \A k \in DictKeys(last.merge.prior) :
                    (/\ RowGet(DictGet(last.merge.prior, k), F.known, None) = CHECK
                     /\ \E b \in DOMAIN last.merge.batch :
                           /\ KeyOf(last.merge.batch[b]) = k
                           /\ RowGet(last.merge.batch[b], F.known, None) = CROSS)
                    => \A j \in DOMAIN last.writes[i].rows :
                           KeyOf(last.writes[i].rows[j]) = k =>
                               /\ k \notin DOMAIN last.writes[i].known_map
                                    => RowGet(last.writes[i].rows[j], F.known, None) = CROSS
                               /\ (/\ k \in DOMAIN last.writes[i].known_map
                                   /\ last.writes[i].known_map[k] = CHECK)
                                    => RowGet(last.writes[i].rows[j], F.known, None) = CHECK

\* the keys of the records of a list
KeysOf(rows) == {KeyOf(rows[i]) : i \in DOMAIN rows}

\* the record of key k the list holds last
LastOf(rows, k) ==
    rows[CHOOSE i \in DOMAIN rows :
             KeyOf(rows[i]) = k /\ \A j \in (i + 1)..Len(rows) : KeyOf(rows[j]) # k]

\* merged is the union of prior and batch by key, the batch's record winning
IsUnionWithOverwrite(prior, batch, merged) ==
    /\ DictKeys(merged) = DictKeys(prior) \cup KeysOf(batch)
    /\ \A i, j \in DOMAIN merged : merged[i].key = merged[j].key => i = j
    /\ \A k \in KeysOf(batch) : DictGet(merged, k) = LastOf(batch, k)
    /\ \A k \in DictKeys(prior) \ KeysOf(batch) : DictGet(merged, k) = DictGet(prior, k)

\* C3: the store merged in append mode has the keys of the prior session store and of
\* the batch, and no others; a key of the batch holds the batch's record, a key of the
\* prior store alone holds the prior record unchanged.
C3_AppendMergeIsKeyUnion ==
    last.merge.ran => IsUnionWithOverwrite(last.merge.prior, last.merge.batch, last.merge.merged)

\* C3 witness: three prior records and a batch of one overlapping and two new records
\* merge to a store of five, the overlapping record being the batch's
C3_Witness ==
    /\ last.merge.ran
    /\ Len(last.merge.prior) = 3
    /\ Len(last.merge.batch) = 3
    /\ Cardinality(KeysOf(last.merge.batch)) = 3
    /\ Cardinality(KeysOf(last.merge.batch) \cap DictKeys(last.merge.prior)) = 1
    /\ Len(last.merge.merged) = 5
    /\ \E k \in KeysOf(last.merge.batch) \cap DictKeys(last.merge.prior) :
          DictGet(last.merge.merged, k) # DictGet(last.merge.prior, k)

\* the key of the record process_phrases makes, or finds, for a phrase
BatchKey(phrase) == <<normalize(phrase), <<last.proc.lang>> >>

\* the number of records of key k in a list
CountKey(rows, k) == Cardinality({i \in DOMAIN rows : KeyOf(rows[i]) = k})

\* C4: after a batch is processed, every store the run produced holds exactly one record
\* for the key (normalized, lang) of each phrase of the batch: the cache, the result list
\* process_phrases returned, the session results, and every session file written.
C4_IdentityUniqueness ==
    (last.proc.ran /\ last.exc = "") =>
        \A i \in DOMAIN last.proc.phrases :
            /\ CountKey(DictValues(last.proc.cache), BatchKey(last.proc.phrases[i])) = 1
            /\ CountKey(last.proc.results, BatchKey(last.proc.phrases[i])) = 1
            /\ CountKey(Rows(results), BatchKey(last.proc.phrases[i])) = 1
            /\ \A w \in DOMAIN last.writes :
                   CountKey(last.writes[w].rows, BatchKey(last.proc.phrases[i])) = 1

\* the phrases of the last batch whose key the loaded cache did not hold
IsFresh(phrase) == ~DictHas(last.proc.before, BatchKey(phrase))

\* C6: when the translator raises for a phrase, the record of the phrase holds the
\* sentinel with the failure's text as its translation, the record is in the cache, and
\* the phrases after it are processed: the batch ends without an exception and with a
\* result for each phrase.
C6_TranslationFailsSoft ==
    (last.proc.ran /\ last.proc.ttsFail = {}) =>
        /\ last.proc.exc = ""
        /\ Len(last.proc.results) = Len(last.proc.phrases)
        /\ \A i \in DOMAIN last.proc.phrases :
               /\ DictHas(last.proc.cache, BatchKey(last.proc.phrases[i]))
               /\ (/\ normalize(last.proc.phrases[i]) \in last.proc.trFail
                   /\ IsFresh(last.proc.phrases[i]))
                  => DictGet(last.proc.cache, BatchKey(last.proc.phrases[i]))[F.translation]
                         = Sentinel(TranslatorError)

\* C6 witness: the translator raised for the first phrase of a batch of two, and the
\* second phrase, of another key, was translated
C6_Witness ==
    /\ last.proc.ran
    /\ Len(last.proc.phrases) = 2
    /\ normalize(last.proc.phrases[1]) \in last.proc.trFail
    /\ IsFresh(last.proc.phrases[1])
    /\ Len(last.proc.translated) = 2
    /\ last.proc.results[1][F.translation] = Sentinel(TranslatorError)
    /\ last.proc.results[2][F.translation] = Translation(P_ce, "ro", "ru")

\* C7: when the translator or the synthesizer fails for a phrase of the batch, the
\* batch is processed to its end all the same: there is a record for every phrase, and
\* the records of the batch are written to the cache file.
C7_NoFailureAbortsTheBatch ==
    last.proc.ran =>
        /\ last.proc.exc = ""
        /\ \A i \in DOMAIN last.proc.phrases :
               \E w \in DOMAIN last.writes :
                   /\ last.writes[w].path = CSV_CACHE_FILE
                   /\ CountKey(last.writes[w].rows, BatchKey(last.proc.phrases[i])) >= 1

\* C8 as stated: the synthesizer is invoked at most once for a path
C8_AtMostOncePerPath == \A p \in DOMAIN gtts : gtts[p] <= 1

\* C8: once a file exists at a path, the synthesizer is not invoked for that path again
\* and the file is not rewritten: a step leaves every existing file, and the number of
\* invocations for its path, as they are.
C8_ExistingAudioIsKept ==
    [][\A p \in DOMAIN audio :
          /\ p \in DOMAIN audio'
          /\ audio'[p] = audio[p]
          /\ gtts'[p] = gtts[p]]_vars

\* C8 witness: the know button was pressed on a card of an earlier run, so the run spoke
\* the card's phrase again with its file in place, and the one invocation stayed one
C8_Witness ==
    /\ last.btn = "know"
    /\ last.exc = ""
    /\ \E p \in DOMAIN audio : gtts[p] = 1

\* the number of times the translator was asked for a text
TimesIn(log, text) == Cardinality({i \in DOMAIN log : log[i] = text})

\* C5: in a run of the command line tool the translator is called at most once for each
\* key (the normalized text), and not at all for a key the loaded cache holds, whatever
\* the spellings in the batch.
C5_TranslationAtMostOncePerKey ==
    cli.ran =>
        \A i \in DOMAIN cli.words :
            /\ TimesIn(cli.translated, normalize(cli.words[i])) <= 1
            /\ DictHas(cli.cache, normalize(cli.words[i]))
                   => TimesIn(cli.translated, normalize(cli.words[i])) = 0

\* the row has a normalized text, and it is not blank
HasIdentity(row) ==
    /\ RowGet(row, F.normalized, None) # None
    /\ Strip(RowGet(row, F.normalized, None)) # <<>>

\* C9: load_csv_cache, and read_existing_csv, return a store, and no entry of the store
\* is a row whose normalized text is missing or blank; no such row is in the file
\* save_csv_file writes from the store load_csv_cache returned.
C9_MalformedRowsAreSkipped ==
    trip.step \in {"loaded", "saved again"} =>
        /\ trip.gui.exc = ""
        /\ \A i \in DOMAIN trip.gui.store : HasIdentity(trip.gui.store[i].row)
        /\ trip.tool.exc = ""
        /\ \A i \in DOMAIN trip.tool.store : HasIdentity(trip.tool.store[i].row)
        /\ trip.step = "saved again" =>
               \A i \in DOMAIN DictReader(csv_reader(trip.again)) :
                   HasIdentity(DictReader(csv_reader(trip.again))[i])

\* C10: for a store of well-formed records, load_csv_cache of the file save_csv_file
\* wrote returns the keys of the store, each with the record of the store, field by
\* field, and saving what it returned writes the same text again.
C10_RoundTrip ==
    (trip.step \in {"loaded", "saved again"} /\ ~trip.edited) =>
        /\ trip.gui.exc = ""
        /\ DictKeys(trip.gui.store) = KeysOf(trip.data)
        /\ \A i \in DOMAIN trip.data :
               DictGet(trip.gui.store, KeyOf(trip.data[i])) = trip.data[i]
        /\ trip.step = "saved again" => trip.again = trip.text
\* the key of the card whose button the step presses, as the page shows it
Marked == page.keys[last'.idx]

\* C11: pressing the know button of a displayed card of key k ends without an exception
\* and leaves known_map[k] = check and date_known_map[k] = today; pressing its dontknow
\* button ends without an exception and leaves known_map[k] = cross and
\* date_known_map[k] = ''.  No entry of another key is made or changed.
C11_SetKnown ==
    [][(runs' # runs /\ last'.btn \in {"know", "dontknow"}) =>
          /\ last'.exc = ""
          /\ DOMAIN known_map' = DOMAIN known_map \cup {Marked}
          /\ DOMAIN date_known_map' = DOMAIN date_known_map \cup {Marked}
          /\ known_map'[Marked] = (IF last'.btn = "know" THEN CHECK ELSE CROSS)
          /\ date_known_map'[Marked] = (IF last'.btn = "know" THEN Today ELSE <<>>)
          /\ \A k \in DOMAIN known_map \ {Marked} :
                 /\ known_map'[k] = known_map[k]
                 /\ date_known_map'[k] = date_known_map[k]]_vars
\* C12: the row the cards' loop leaves for a record has known and date_known as the
\* overlay holds them for the record's key (normalized, lang) when it holds an entry for
\* the key, and as the record had them otherwise; every other field is as it was.
C12_OverlayPrecedence ==
    \A i \in DOMAIN last.recon :
        /\ DOMAIN last.recon[i].after = DOMAIN last.recon[i].before
        /\ last.recon[i].after[F.known] =
               (IF KeyOf(last.recon[i].before) \in DOMAIN last.recon[i].known_map
                THEN last.recon[i].known_map[KeyOf(last.recon[i].before)]
                ELSE last.recon[i].before[F.known])
        /\ last.recon[i].after[F.date_known] =
               (IF KeyOf(last.recon[i].before) \in DOMAIN last.recon[i].date_known_map
                THEN last.recon[i].date_known_map[KeyOf(last.recon[i].before)]
                ELSE last.recon[i].before[F.date_known])
        /\ \A f \in DOMAIN last.recon[i].before \ {F.known, F.date_known} :
               last.recon[i].after[f] = last.recon[i].before[f]

\* C12 witness: a run met a record stored as not known whose key the overlay holds as
\* known, and another record whose key the overlay does not hold
C12_Witness ==
    /\ \E i \in DOMAIN last.recon :
           /\ KeyOf(last.recon[i].before) \in DOMAIN last.recon[i].known_map
           /\ last.recon[i].before[F.known] = CROSS
           /\ last.recon[i].after[F.known] = CHECK
           /\ last.recon[i].before[F.date_known] # last.recon[i].after[F.date_known]
    /\ \E i \in DOMAIN last.recon :
           KeyOf(last.recon[i].before) \notin DOMAIN last.recon[i].known_map
\* a text: a finite sequence of characters
IsText(s) == DOMAIN s = 1..Len(s) /\ \A i \in DOMAIN s : s[i] \in STRING

\* C13: normalize returns a text for every text, and normalizing what it returned
\* returns the same text: normalize(normalize(x)) = normalize(x).
C13_NormalizeIdempotent ==
    /\ calc.step \in {"normalized", "normalized again"} => IsText(calc.y)
    /\ calc.step = "normalized again" => calc.z = calc.y

\* C13 witness: a text with a capital, the key of the table and two white spaces in a
\* row, which normalize changes, has been normalized twice
C13_Witness ==
    /\ calc.step = "normalized again"
    /\ calc.x = P_Vinere \o <<" ", "\n">> \o P_ce
    /\ calc.y = P_vineri \o <<" ">> \o P_ce
    /\ calc.z = calc.y
\* C14: when two spellings of a batch have the same key (normalized, lang), the record
\* the cache holds for the key, and every record of the key in the results, is the one
\* built from the spelling processed last: its original is the later spelling.
C14_LastWriteWins ==
    (last.proc.ran /\ last.proc.exc = "") =>
        \A i, j \in DOMAIN last.proc.phrases :
            (i < j /\ BatchKey(last.proc.phrases[i]) = BatchKey(last.proc.phrases[j])) =>
                /\ DictGet(last.proc.cache, BatchKey(last.proc.phrases[j]))[F.original]
                       = last.proc.phrases[j]
                /\ \A r \in DOMAIN last.proc.results :
                       KeyOf(last.proc.results[r]) = BatchKey(last.proc.phrases[j]) =>
                           last.proc.results[r][F.original] = last.proc.phrases[j]
\* the record has the ten fields, none of them None, the four newer ones at their defaults
BackFilled(row) ==
    /\ DOMAIN row = Range(FIELDNAMES)
    /\ \A f \in DOMAIN row : row[f] # None
    /\ row[F.known] = CROSS
    /\ row[F.category] = <<>>
    /\ row[F.date_added] = <<>>
    /\ row[F.date_known] = <<>>

\* C15: of a file whose rows lack the columns known, category, date_added and
\* date_known, every record load_csv_cache returns, and every record the load of a
\* session returns, has the ten fields, with known = cross and the other three empty.
C15_SchemaBackFill ==
    (trip.step \in {"loaded", "saved again"} /\ trip.cols = 6) =>
        /\ trip.gui.exc = ""
        /\ \A i \in DOMAIN trip.gui.store : BackFilled(trip.gui.store[i].row)
        /\ \A i \in DOMAIN trip.session : BackFilled(trip.session[i])
\* C16: for every record process_phrases builds, the translator was asked to translate
\* from the study language into the language of the record's lang field, whichever of
\* ro and en is studied and whichever of ru and en is the translation language.
C16_LanguagePair ==
    last.proc.ran =>
        \A t \in DOMAIN last.proc.translated :
            /\ last.proc.translated[t].src = last.proc.study
            /\ <<last.proc.translated[t].dest>> =
                   DictGet(last.proc.cache, last.proc.translated[t].key)[F.lang]

\* C17: every record process_phrases returns, built or found in the cache, has ipa and
\* ru_phonetic as the rules of the run's study language make them of its normalized
\* text: IPA_REPLACEMENTS and RU_REPLACEMENTS for ro, no rules for another language.
C17_PhoneticFollowsStudyLanguage ==
    last.proc.ran =>
        \A r \in DOMAIN last.proc.results :
            /\ last.proc.results[r][F.ipa] =
                   apply_replacements(last.proc.results[r][F.normalized],
                       IF last.proc.study = "ro" THEN IPA_REPLACEMENTS ELSE <<>>)
            /\ last.proc.results[r][F.ru_phonetic] =
                   apply_replacements(last.proc.results[r][F.normalized],
                       IF last.proc.study = "ro" THEN RU_REPLACEMENTS ELSE <<>>)
\* every rule of two characters stands before every rule of one of its characters
DigraphsFirst(rules) ==
    \A i, j \in DOMAIN rules :
        (Len(rules[i][1]) > 1 /\ Len(rules[j][1]) = 1 /\ Contains(rules[i][1], rules[j][1]))
            => i < j

\* no later rule's pattern is in a rule's replacement, or can begin at its end or end
\* at its beginning
NoLaterMatch(rules) ==
    \A i, j \in DOMAIN rules :
        i < j =>
            /\ ~Contains(rules[i][2], rules[j][1])
            /\ Len(rules[j][1]) = 2 =>
                   /\ rules[j][1][2] # rules[i][2][1]
                   /\ rules[j][1][1] # rules[i][2][Len(rules[i][2])]

\* out is x with every occurrence of a two-character pattern given as the pattern's
\* replacement, between what the rules make of the text before it and after it
DigraphsRendered(x, out, rules) ==
    \A p \in 1..(Len(x) - 1), r \in DOMAIN rules :
        (Len(rules[r][1]) = 2 /\ SubSeq(Lower(x), p, p + 1) = rules[r][1]) =>
            out = apply_replacements(SubSeq(x, 1, p - 1), rules) \o rules[r][2]
                  \o apply_replacements(SubSeq(x, p + 2, Len(x)), rules)

\* both rulesets have their rules in such an order
RulesInOrder ==
    /\ DigraphsFirst(IPA_REPLACEMENTS) /\ NoLaterMatch(IPA_REPLACEMENTS)
    /\ DigraphsFirst(RU_REPLACEMENTS) /\ NoLaterMatch(RU_REPLACEMENTS)

\* C18: in IPA_REPLACEMENTS and in RU_REPLACEMENTS the rules of two characters stand
\* before the rules of their single characters and no replacement makes a match for a
\* later rule; apply_replacements gives every occurrence of ce, ci, ge, gi, ch, gh in
\* its input as the replacement of that digraph.
C18_DigraphsNotPartiallyConsumed ==
    /\ RulesInOrder
    /\ calc.step = "transcribed" =>
           /\ DigraphsRendered(calc.x, calc.ipa, IPA_REPLACEMENTS)
           /\ DigraphsRendered(calc.x, calc.ru_phonetic, RU_REPLACEMENTS)

\* C18 witness: 'Cegh' was transcribed, the two digraphs by their own rules
C18_Witness ==
    /\ calc.step = "transcribed"
    /\ calc.x = <<"C", "e", "g", "h">>
    /\ calc.ipa = <<"t", "tie", "esh", "e", "g">>
    /\ calc.ru_phonetic = <<"cy_ch", "cy_e", "cy_g">>
\* the run the state comes from processed a batch into a new session file
NewSessionRun(l) ==
    /\ l.proc.ran
    /\ ~l.merge.ran
    /\ \E i \in DOMAIN l.writes : l.writes[i].path # CSV_CACHE_FILE

\* C19: a run that processes a batch in new-session mode writes the batch to a session
\* file of a name no file had, and leaves every session file there was, the loaded one
\* too, as it was; the batch is then the session's results, and a save button pressed
\* next writes the records of the batch.
C19_NewSessionIsolated ==
    [][/\ (runs' # runs /\ NewSessionRun(last')) =>
             /\ \E n \in DOMAIN sessions' \ DOMAIN sessions :
                    sessions'[n] = FileOf(last'.proc.results)
             /\ \A n \in DOMAIN sessions : sessions'[n] = sessions[n]
             /\ KeysOf(Rows(results')) = KeysOf(last'.proc.results)
       /\ (/\ runs' # runs
           /\ NewSessionRun(last)
           /\ last'.btn \in {"save_cards", "save_known"}) =>
             \A i \in DOMAIN last'.writes :
                 KeysOf(last'.writes[i].rows) = KeysOf(last.proc.results)]_vars
\* C20: when both processes have loaded the cache file, processed their batches and
\* saved, the file's text is the text the process that saved last wrote, whole and
\* nothing else: what the other process alone added is not in the file.
C20_LastSnapshotWins ==
    (race.step = "run" /\ \A p \in 1..2 : race.w[p].pc = "done") =>
        race.text = race.w[race.order[2]].text
\* the store load_csv_cache reads of the file at CSV_CACHE_FILE
CacheStore(file) == load_csv_cache(file).store

\* C21: no run of the script, with a session loaded or without, whatever button it
\* handles (process in either session mode, save_cards, save_known), takes a key out of
\* the cache file, or changes a field other than known and date_known of a record the
\* file held.
C21_CacheNeverLosesRecords ==
    [][\A k \in DictKeys(CacheStore(cacheFile)) :
          /\ DictHas(CacheStore(cacheFile'), k)
          /\ \A f \in Range(FIELDNAMES) \ {F.known, F.date_known} :
                 DictGet(CacheStore(cacheFile'), k)[f] = DictGet(CacheStore(cacheFile), k)[f]]_vars
\* C22: in every state known_map and date_known_map have the same keys, and for every
\* key known_map holds check if and only if date_known_map holds a date, not ''.
C22_OverlayWellFormed ==
    /\ DOMAIN known_map = DOMAIN date_known_map
    /\ \A k \in DOMAIN known_map : (known_map[k] = CHECK) <=> (date_known_map[k] # <<>>)

\* C22 witness: the know button has made an entry, and the dontknow button of a card was
\* pressed in the run after it
C22_Witness ==
    /\ overlay
    /\ last.btn = "dontknow"
    /\ \E k \in DOMAIN known_map : known_map[k] = CHECK /\ date_known_map[k] = Today
\* the file of the name holds the synthesis of the text in the language
Holds(name, text, lang) ==
    name \in DOMAIN audio /\ audio[name] = [text |-> text, lang |-> lang]

\* C23: when a run that processed a batch ends without an exception, the file it asked
\* speak for under each name holds the synthesis of the text and the language it asked
\* for: for every record of the results the file of the phrase holds the normalized text
\* in the study language and, with the double audio on, the file of the translation
\* holds the translation in the translation language.
C23_AudioNotShared ==
    (last.proc.ran /\ last.exc = "") =>
        \A i \in DOMAIN results :
            /\ Holds(AudioName(results[i].row[F.normalized], last.proc.study),
                     results[i].row[F.normalized], last.proc.study)
            /\ last.double =>
                   Holds(AudioName(results[i].row[F.normalized], last.proc.lang),
                         results[i].row[F.translation], last.proc.lang)
====
